---- MODULE Spec2Model ----
(***************************************************************************)
(* Model of src-tauri/src/proxy/common/json_schema.rs: the JSON Schema     *)
(* normalizer clean_json_schema and its helpers.                           *)
(*                                                                         *)
(* A serde_json::Value is a record with one field, named after the         *)
(* variant, that holds the payload.                                        *)
(*   Null    [null |-> ""]                                                 *)
(*   Bool    [bool |-> "true" | "false"]                                   *)
(*   Number  [num |-> its decimal text]                                    *)
(*   String  [str |-> the string]                                          *)
(*   Array   [arr |-> a sequence of values]                                *)
(*   Object  [obj |-> a function from key strings to values]               *)
(* A serde_json::Map is the function itself; map equality does not depend  *)
(* on key order, as in serde_json.                                         *)
(***************************************************************************)
EXTENDS Integers, Sequences, FiniteSets, TLC

VARIABLES doc, ord, out, out2, pc

vars == <<doc, ord, out, out2, pc>>

(***************************************************************************)
(* Bounds of the model.                                                    *)
(***************************************************************************)
\* recursion depth flatten_refs may reach before the thread's stack is gone
MaxStack == 12
\* number of property names the documents use
MaxProps == 2
\* number of branches of an anyOf / oneOf / allOf
MaxBranches == 2
\* number of nodes put around a seed node
MaxWrap == 1

(***************************************************************************)
(* serde_json::Value constructors and tests.                               *)
(***************************************************************************)
Null == [null |-> ""]
Bool(b) == [bool |-> b]
Num(n) == [num |-> n]
Str(s) == [str |-> s]
Arr(a) == [arr |-> a]
Obj(m) == [obj |-> m]

EmptyMap == [x \in {} |-> Null]

is_null(x) == DOMAIN x = {"null"}
is_object(x) == DOMAIN x = {"obj"}
is_array(x) == DOMAIN x = {"arr"}
is_string(x) == DOMAIN x = {"str"}
is_number(x) == DOMAIN x = {"num"}
is_boolean(x) == DOMAIN x = {"bool"}

contains_key(m, key) == key \in DOMAIN m

\* Map::insert: a later insertion overwrites
insert(m, key, val) == [x \in DOMAIN m \cup {key} |-> IF x = key THEN val ELSE m[x]]

\* Map::remove
remove(m, key) == [x \in DOMAIN m \ {key} |-> m[x]]

\* Map::extend: entries of d overwrite those of m
extend(m, d) == [x \in DOMAIN m \cup DOMAIN d |-> IF x \in DOMAIN d THEN d[x] ELSE m[x]]

\* map.entry(k).or_insert(v) for every (k, v) of d: entries of m are kept
or_insert_all(m, d) == [x \in DOMAIN m \cup DOMAIN d |-> IF x \in DOMAIN m THEN m[x] ELSE d[x]]

\* map.get(key).and_then(|t| t.as_str()) == Some(s)
get_str_is(m, key, s) == contains_key(m, key) /\ is_string(m[key]) /\ m[key].str = s

(***************************************************************************)
(* Strings.                                                                *)
(***************************************************************************)
to_lowercase_char(c) ==
    CASE c = "A" -> "a" [] c = "B" -> "b" [] c = "C" -> "c" [] c = "D" -> "d"
      [] c = "E" -> "e" [] c = "F" -> "f" [] c = "G" -> "g" [] c = "H" -> "h"
      [] c = "I" -> "i" [] c = "J" -> "j" [] c = "K" -> "k" [] c = "L" -> "l"
      [] c = "M" -> "m" [] c = "N" -> "n" [] c = "O" -> "o" [] c = "P" -> "p"
      [] c = "Q" -> "q" [] c = "R" -> "r" [] c = "S" -> "s" [] c = "T" -> "t"
      [] c = "U" -> "u" [] c = "V" -> "v" [] c = "W" -> "w" [] c = "X" -> "x"
      [] c = "Y" -> "y" [] c = "Z" -> "z" [] OTHER -> c

RECURSIVE to_lowercase(_)
to_lowercase(s) ==
    IF Len(s) = 0 THEN ""
    ELSE to_lowercase_char(SubSeq(s, 1, 1)) \o to_lowercase(SubSeq(s, 2, Len(s)))

\* str::contains
contains(s, sub) ==
    \E i \in 1..(Len(s) - Len(sub) + 1) : SubSeq(s, i, i + Len(sub) - 1) = sub

\* ref_path.split('/').last()
split_last(s) ==
    LET slashes == {i \in 1..Len(s) : SubSeq(s, i, i) = "/"}
        last == CHOOSE i \in slashes : \A j \in slashes : j <= i
    IN IF slashes = {} THEN s ELSE SubSeq(s, last + 1, Len(s))

\* constraints.join(", ")
RECURSIVE join(_, _)
join(parts, sep) ==
    IF Len(parts) = 0 THEN ""
    ELSE IF Len(parts) = 1 THEN parts[1]
    ELSE parts[1] \o sep \o join(Tail(parts), sep)

(***************************************************************************)
(* flatten_refs: the result is [ok, m]; ok is FALSE when the recursion ran *)
(* deeper than the stack allows (a reference cycle).                       *)
(***************************************************************************)
RECURSIVE flatten_refs(_, _, _)
RECURSIVE flatten_children(_, _, _, _)
RECURSIVE flatten_items(_, _, _, _)

\* for item in arr: objects are flattened, other items are left alone
flatten_items(arr, i, defs, depth) ==
    IF i > Len(arr) THEN [ok |-> TRUE, m |-> arr]
    ELSE IF is_object(arr[i])
         THEN LET r == flatten_refs(arr[i].obj, defs, depth)
              IN IF ~r.ok THEN [ok |-> FALSE, m |-> arr]
                 ELSE flatten_items([arr EXCEPT ![i] = Obj(r.m)], i + 1, defs, depth)
         ELSE flatten_items(arr, i + 1, defs, depth)

\* for (_, v) in map.iter_mut(): keys holds the keys not yet visited
flatten_children(map, keys, defs, depth) ==
    IF keys = {} THEN [ok |-> TRUE, m |-> map]
    ELSE LET key == CHOOSE x \in keys : TRUE
             child == map[key]
             below == IF is_object(child) THEN flatten_refs(child.obj, defs, depth)
                      ELSE flatten_items(child.arr, 1, defs, depth)
             r == IF is_object(child) THEN [ok |-> below.ok, m |-> Obj(below.m)]
                  ELSE IF is_array(child) THEN [ok |-> below.ok, m |-> Arr(below.m)]
                  ELSE [ok |-> TRUE, m |-> child]
         IN IF ~r.ok THEN [ok |-> FALSE, m |-> map]
            ELSE flatten_children([map EXCEPT ![key] = r.m], keys \ {key}, defs, depth)

\* flatten_refs that merges the definition without removing "$ref" first
flatten_refs_keeps_ref(map, defs, depth) ==
    IF depth > MaxStack THEN [ok |-> FALSE, m |-> map]
    ELSE LET resolves == /\ contains_key(map, "$ref")
                         /\ is_string(map["$ref"])
                         /\ contains_key(defs, split_last(map["$ref"].str))
                         /\ is_object(defs[split_last(map["$ref"].str)])
             def_map == defs[split_last(map["$ref"].str)].obj
             merged == IF resolves
                       THEN flatten_refs(or_insert_all(map, def_map), defs, depth + 1)
                       ELSE [ok |-> TRUE, m |-> remove(map, "$ref")]
         IN IF ~merged.ok THEN merged
            ELSE flatten_children(merged.m, DOMAIN merged.m, defs, depth + 1)

flatten_refs(map, defs, depth) ==
    IF depth > MaxStack THEN [ok |-> FALSE, m |-> map]
    ELSE LET removed == remove(map, "$ref")
             resolves == /\ contains_key(map, "$ref")
                         /\ is_string(map["$ref"])
                         /\ contains_key(defs, split_last(map["$ref"].str))
                         /\ is_object(defs[split_last(map["$ref"].str)])
             def_map == defs[split_last(map["$ref"].str)].obj
             merged == IF resolves
                       THEN flatten_refs(or_insert_all(removed, def_map), defs, depth + 1)
                       ELSE [ok |-> TRUE, m |-> removed]
         IN IF ~merged.ok THEN merged
            ELSE flatten_children(merged.m, DOMAIN merged.m, defs, depth + 1)

(***************************************************************************)
(* Iteration order of a std::collections::HashSet<String>: it depends on   *)
(* the per-instance random hash keys, so it is an input of the run.        *)
(* hash_order is a sequence of names; the set is visited in that order,    *)
(* names that hash_order does not list come last.                          *)
(***************************************************************************)
RECURSIVE set_to_seq(_)
set_to_seq(S) ==
    IF S = {} THEN <<>>
    ELSE LET x == CHOOSE y \in S : TRUE IN <<x>> \o set_to_seq(S \ {x})

hash_iter(S, hash_order) ==
    LET listed == {hash_order[i] : i \in 1..Len(hash_order)}
    IN SelectSeq(hash_order, LAMBDA x : x \in S) \o set_to_seq(S \ listed)

(***************************************************************************)
(* merge_all_of                                                            *)
(***************************************************************************)
\* the strings of a required array
required_strings(reqs) == {reqs[i].str : i \in {j \in 1..Len(reqs) : is_string(reqs[j])}}

RECURSIVE merged_properties(_, _)

\* merged_properties in which the first branch to declare a name wins
merged_properties_first_wins(all_of, i) ==
    IF i = 0 THEN EmptyMap
    ELSE LET sub == all_of[i]
             acc == merged_properties(all_of, i - 1)
         IN IF is_object(sub) /\ contains_key(sub.obj, "properties")
                              /\ is_object(sub.obj["properties"])
            THEN or_insert_all(acc, sub.obj["properties"].obj)
            ELSE acc

\* merged_properties.insert(k, v) over the branches: a later branch overwrites
merged_properties(all_of, i) ==
    IF i = 0 THEN EmptyMap
    ELSE LET sub == all_of[i]
             acc == merged_properties(all_of, i - 1)
         IN IF is_object(sub) /\ contains_key(sub.obj, "properties")
                              /\ is_object(sub.obj["properties"])
            THEN extend(acc, sub.obj["properties"].obj)
            ELSE acc

\* merged_required.insert(s) over the branches
merged_required(all_of) ==
    UNION {required_strings(all_of[i].obj["required"].arr) :
             i \in {j \in 1..Len(all_of) :
                      /\ is_object(all_of[j])
                      /\ contains_key(all_of[j].obj, "required")
                      /\ is_array(all_of[j].obj["required"])}}

\* other_fields: the first branch that has a field wins
RECURSIVE other_fields(_, _)
other_fields(all_of, i) ==
    IF i = 0 THEN EmptyMap
    ELSE LET sub == all_of[i]
             acc == other_fields(all_of, i - 1)
             rest == [x \in DOMAIN sub.obj \ {"properties", "required", "allOf"} |-> sub.obj[x]]
         IN IF is_object(sub) THEN or_insert_all(acc, rest) ELSE acc

merge_all_of(map, hash_order) ==
    IF ~contains_key(map, "allOf") THEN map
    ELSE LET all_of == map["allOf"]
             m0 == remove(map, "allOf")
             props == merged_properties(all_of.arr, Len(all_of.arr))
             reqs == merged_required(all_of.arr)
             m1 == or_insert_all(m0, other_fields(all_of.arr, Len(all_of.arr)))
             existing_props == IF contains_key(m1, "properties") THEN m1["properties"]
                               ELSE Obj(EmptyMap)
             m2 == IF DOMAIN props = {} THEN m1
                   ELSE IF is_object(existing_props)
                        THEN insert(m1, "properties", Obj(or_insert_all(existing_props.obj, props)))
                        ELSE m1
             existing_reqs == IF contains_key(m2, "required") THEN m2["required"]
                              ELSE Arr(<<>>)
             current_reqs == required_strings(existing_reqs.arr)
             pushed == hash_iter(reqs \ current_reqs, hash_order)
             m3 == IF reqs = {} THEN m2
                   ELSE IF is_array(existing_reqs)
                        THEN insert(m2, "required",
                                    Arr(existing_reqs.arr \o [i \in 1..Len(pushed) |-> Str(pushed[i])]))
                        ELSE m2
         IN IF is_array(all_of) THEN m3 ELSE m0

(***************************************************************************)
(* anyOf / oneOf: score_schema_option, extract_best_type_from_union,       *)
(* extract_type_from_union.  An Option is [some, val].                     *)
(***************************************************************************)
None == [some |-> FALSE, val |-> ""]
Some(x) == [some |-> TRUE, val |-> x]

score_schema_option(val) ==
    IF ~is_object(val) THEN 0
    ELSE IF contains_key(val.obj, "properties") \/ get_str_is(val.obj, "type", "object") THEN 3
    ELSE IF contains_key(val.obj, "items") \/ get_str_is(val.obj, "type", "array") THEN 2
    ELSE IF contains_key(val.obj, "type") /\ is_string(val.obj["type"]) /\ val.obj["type"].str # "null"
         THEN 1
    ELSE 0

\* the index of the first item with the highest score; 0 for an empty array
extract_best_type_from_union(union_array) ==
    IF Len(union_array) = 0 THEN 0
    ELSE CHOOSE i \in 1..Len(union_array) :
           /\ \A j \in 1..Len(union_array) :
                score_schema_option(union_array[j]) <= score_schema_option(union_array[i])
           /\ \A j \in 1..(i - 1) :
                score_schema_option(union_array[j]) < score_schema_option(union_array[i])

extract_type_from_union(union_array) ==
    LET i == extract_best_type_from_union(union_array)
        best == union_array[i]
    IN IF i = 0 THEN None
       ELSE IF ~is_object(best) THEN None
       ELSE IF contains_key(best.obj, "type") /\ is_string(best.obj["type"])
                                           /\ best.obj["type"].str # "null"
            THEN Some(to_lowercase(best.obj["type"].str))
       ELSE IF contains_key(best.obj, "properties") THEN Some("object")
       ELSE None

(***************************************************************************)
(* clean_json_schema_recursive, pass by pass.  Its result is [value,       *)
(* nullable]: the rewritten value and the is_effectively_nullable flag.    *)
(***************************************************************************)
validation_fields ==
    << <<"pattern", "pattern">>, <<"minLength", "minLen">>, <<"maxLength", "maxLen">>,
       <<"minimum", "min">>, <<"maximum", "max">>, <<"minItems", "minItems">>,
       <<"maxItems", "maxItems">>, <<"exclusiveMinimum", "exclMin">>,
       <<"exclusiveMaximum", "exclMax">>, <<"multipleOf", "multipleOf">>,
       <<"format", "format">> >>

hard_remove_fields ==
    {"$schema", "$id", "additionalProperties", "enumCaseInsensitive",
     "enumNormalizeWhitespace", "uniqueItems", "default", "const", "examples",
     "propertyNames", "anyOf", "oneOf", "allOf", "not", "if", "then", "else",
     "dependencies", "dependentSchemas", "dependentRequired", "cache_control",
     "contentEncoding", "contentMediaType", "deprecated", "readOnly", "writeOnly"}

\* val.is_string() || val.is_number() || val.is_boolean()
is_scalar_constraint(val) == is_string(val) \/ is_number(val) \/ is_boolean(val)

\* val.as_str(), else val.to_string(), of a scalar
scalar_text(val) ==
    IF is_string(val) THEN val.str ELSE IF is_number(val) THEN val.num ELSE val.bool

\* the fields of validation_fields[1..i] that the node carries as a scalar
migrated_fields(map, i) ==
    {j \in 1..i : /\ contains_key(map, validation_fields[j][1])
                  /\ is_scalar_constraint(map[validation_fields[j][1]])}

\* constraints: one "label: value" per migrated field, in the order of the list
collect_constraints(map) ==
    LET idx == migrated_fields(map, Len(validation_fields))
        hint(j) == validation_fields[j][2] \o ": " \o scalar_text(map[validation_fields[j][1]])
        all == [j \in 1..Len(validation_fields) |-> IF j \in idx THEN hint(j) ELSE ""]
    IN SelectSeq(all, LAMBDA h : h # "")

\* passes 2 and 3: validation fields become a hint in the description
migrate_constraints(map) ==
    LET idx == migrated_fields(map, Len(validation_fields))
        constraints == collect_constraints(map)
        m1 == [x \in DOMAIN map \ {validation_fields[j][1] : j \in idx} |-> map[x]]
        suffix == " [Constraint: " \o join(constraints, ", ") \o "]"
        desc_val == IF contains_key(m1, "description") THEN m1["description"] ELSE Str("")
    IN IF Len(constraints) = 0 THEN m1
       ELSE IF is_string(desc_val) THEN insert(m1, "description", Str(desc_val.str \o suffix))
       ELSE m1

\* pass 4: a node without type takes one from anyOf, else from oneOf
resolve_union(map) ==
    LET from(key) == IF contains_key(map, key) /\ is_array(map[key])
                     THEN extract_type_from_union(map[key].arr) ELSE None
    IN IF contains_key(map, "type") THEN map
       ELSE IF from("anyOf").some THEN insert(map, "type", Str(from("anyOf").val))
       ELSE IF from("oneOf").some THEN insert(map, "type", Str(from("oneOf").val))
       ELSE map

\* pass 5
hard_remove(map) == [x \in DOMAIN map \ hard_remove_fields |-> map[x]]

\* the placeholder of an object without properties
reason_placeholder ==
    Obj([x \in {"reason"} |->
           Obj([y \in {"type", "description"} |->
                  IF y = "type" THEN Str("string") ELSE Str("Reason for calling this tool")])])

add_placeholder(map) ==
    LET has_props == /\ contains_key(map, "properties")
                     /\ is_object(map["properties"])
                     /\ DOMAIN map["properties"].obj # {}
    IN IF get_str_is(map, "type", "object") /\ ~has_props
       THEN insert(insert(map, "properties", reason_placeholder),
                   "required", Arr(<<Str("reason")>>))
       ELSE map

\* reconcile_required that leaves required as it is
reconcile_required_unfiltered(map) == map

\* required keeps only the names of properties
reconcile_required(map) ==
    LET has_keys == contains_key(map, "properties") /\ is_object(map["properties"])
        keys == DOMAIN map["properties"].obj
        req_arr == map["required"].arr
    IN IF contains_key(map, "required") /\ is_array(map["required"])
       THEN IF has_keys
            THEN insert(map, "required",
                        Arr(SelectSeq(req_arr, LAMBDA r : is_string(r) /\ r.str \in keys)))
            ELSE insert(map, "required", Arr(<<>>))
       ELSE map

RECURSIVE selected_type(_, _)

\* selected_type that takes "null" for a type name
selected_type_with_null(arr, i) ==
    IF i = 0 THEN "string"
    ELSE IF is_string(arr[i]) THEN to_lowercase(arr[i].str)
    ELSE selected_type(arr, i - 1)

\* the last non-"null" string of a type array, lowercased; "string" if none
selected_type(arr, i) ==
    IF i = 0 THEN "string"
    ELSE IF is_string(arr[i]) /\ arr[i].str # "null" THEN to_lowercase(arr[i].str)
    ELSE selected_type(arr, i - 1)

\* pass 6: [m, n], the map with a single lowercase type and the nullable flag
normalize_type(map) ==
    LET type_val == map["type"]
    IN IF ~contains_key(map, "type") THEN [m |-> map, n |-> FALSE]
       ELSE IF is_string(type_val)
            THEN [m |-> insert(map, "type", Str(to_lowercase(type_val.str))),
                  n |-> to_lowercase(type_val.str) = "null"]
       ELSE IF is_array(type_val)
            THEN [m |-> insert(map, "type", Str(selected_type(type_val.arr, Len(type_val.arr)))),
                  n |-> \E i \in 1..Len(type_val.arr) :
                          is_string(type_val.arr[i]) /\ type_val.arr[i].str = "null"]
       ELSE [m |-> map, n |-> FALSE]

mark_nullable(map, nullable) ==
    LET desc_val == IF contains_key(map, "description") THEN map["description"] ELSE Str("")
        s == desc_val.str
    IN IF ~nullable THEN map
       ELSE IF ~is_string(desc_val) THEN map
       ELSE IF contains(s, "nullable") THEN insert(map, "description", desc_val)
       ELSE insert(map, "description",
                   Str((IF Len(s) = 0 THEN s ELSE s \o " ") \o "(nullable)"))

\* Value::to_string of a value: its JSON text
RECURSIVE to_string(_)
RECURSIVE items_to_string(_, _)
RECURSIVE entries_to_string(_, _)
items_to_string(arr, i) ==
    IF i > Len(arr) THEN ""
    ELSE (IF i > 1 THEN "," ELSE "") \o to_string(arr[i]) \o items_to_string(arr, i + 1)
entries_to_string(map, keys) ==
    IF keys = {} THEN ""
    ELSE LET key == CHOOSE x \in keys : TRUE
         IN (IF keys # DOMAIN map THEN "," ELSE "") \o "\"" \o key \o "\":"
              \o to_string(map[key]) \o entries_to_string(map, keys \ {key})
to_string(val) ==
    IF is_null(val) THEN "null"
    ELSE IF is_string(val) THEN "\"" \o val.str \o "\""
    ELSE IF is_array(val) THEN "[" \o items_to_string(val.arr, 1) \o "]"
    ELSE IF is_object(val) THEN "{" \o entries_to_string(val.obj, DOMAIN val.obj) \o "}"
    ELSE IF is_number(val) THEN val.num
    ELSE val.bool

\* pass 7: every enum member becomes a string
coerce_enum(map) ==
    LET arr == map["enum"].arr
        coerced(item) == IF is_string(item) THEN item ELSE Str(to_string(item))
    IN IF contains_key(map, "enum") /\ is_array(map["enum"])
       THEN insert(map, "enum", Arr([i \in 1..Len(arr) |-> coerced(arr[i])]))
       ELSE map

\* the passes that follow the descent into the children
finish_node(map) ==
    LET typed == normalize_type(
                   reconcile_required(add_placeholder(hard_remove(resolve_union(
                     migrate_constraints(map))))))
    IN [value |-> Obj(coerce_enum(mark_nullable(typed.m, typed.n))), nullable |-> typed.n]

RECURSIVE clean_json_schema_recursive(_, _)

\* pass 1: the descent into properties, or else into every value
clean_children(map, hash_order) ==
    LET props == map["properties"].obj
        cleaned == [x \in DOMAIN props |-> clean_json_schema_recursive(props[x], hash_order)]
        nullable_keys == {x \in DOMAIN props : cleaned[x].nullable}
        m1 == insert(map, "properties", Obj([x \in DOMAIN props |-> cleaned[x].value]))
        retained == SelectSeq(m1["required"].arr,
                              LAMBDA r : ~(is_string(r) /\ r.str \in nullable_keys))
    IN IF contains_key(map, "properties") /\ is_object(map["properties"])
       THEN IF nullable_keys # {} /\ contains_key(m1, "required") /\ is_array(m1["required"])
            THEN IF Len(retained) = 0 THEN remove(m1, "required")
                 ELSE insert(m1, "required", Arr(retained))
            ELSE m1
       ELSE [x \in DOMAIN map |-> clean_json_schema_recursive(map[x], hash_order).value]

clean_json_schema_recursive(value, hash_order) ==
    IF is_object(value)
    THEN finish_node(clean_children(merge_all_of(value.obj, hash_order), hash_order))
    ELSE IF is_array(value)
    THEN [value |-> Arr([i \in 1..Len(value.arr) |->
                           clean_json_schema_recursive(value.arr[i], hash_order).value]),
          nullable |-> FALSE]
    ELSE [value |-> value, nullable |-> FALSE]

(***************************************************************************)
(* clean_json_schema.  flatten_root is its pre-pass: [ok, value], the      *)
(* value handed to clean_json_schema_recursive, ok FALSE when flatten_refs *)
(* overflowed the stack.                                                   *)
(***************************************************************************)
flatten_root(value) ==
    LET map == value.obj
        d1 == IF contains_key(map, "$defs") /\ is_object(map["$defs"])
              THEN map["$defs"].obj ELSE EmptyMap
        d2 == IF contains_key(map, "definitions") /\ is_object(map["definitions"])
              THEN map["definitions"].obj ELSE EmptyMap
        defs == extend(d1, d2)
        rest == remove(remove(map, "$defs"), "definitions")
        flat == IF DOMAIN defs # {} THEN flatten_refs(rest, defs, 1)
                ELSE [ok |-> TRUE, m |-> rest]
    IN IF ~is_object(value) THEN [ok |-> TRUE, value |-> value]
       ELSE [ok |-> flat.ok, value |-> Obj(flat.m)]

clean_json_schema(value, hash_order) ==
    LET flat == flatten_root(value)
    IN IF ~flat.ok THEN [ok |-> FALSE, value |-> value]
       ELSE [ok |-> TRUE, value |-> clean_json_schema_recursive(flat.value, hash_order).value]

(***************************************************************************)
(* The documents of the model.  Every document is a JSON value the caller  *)
(* can hand to clean_json_schema; they are built from small parts.         *)
(***************************************************************************)
S(x) == Str(x)
StringSchema == Obj("type" :> S("string"))

\* no key, or one of the forms the "type" key takes
TypeParts ==
    {EmptyMap} \cup
    {"type" :> t : t \in {S("string"), S("STRING"), S("object"), S("OBJECT"), S("null"),
                          S("array"), Arr(<<S("string"), S("null")>>),
                          Arr(<<S("object"), S("null")>>), Arr(<<S("null")>>),
                          Arr(<<S("NULL"), Num("1"), S("Integer")>>), Num("5"), Null}}

\* validation keywords: scalar, null and structured values
ConstraintParts ==
    {EmptyMap,
     "minLength" :> Num("1"),
     "format" :> S("uri") @@ "pattern" :> S("^a/b$") @@ "minimum" :> Num("0"),
     "multipleOf" :> Bool("true") @@ "maximum" :> Null,
     "maxItems" :> Obj("type" :> S("INTEGER") @@ "default" :> Num("1")),
     "exclusiveMinimum" :> Arr(<<Num("1")>>) @@ "exclusiveMaximum" :> Num("9")}

DescParts ==
    {EmptyMap, "description" :> S("d"), "description" :> Num("5"),
     "description" :> S("a nullable d")}

\* keys of the hard-remove list, an enum, an unknown key
HardParts ==
    {EmptyMap,
     "$schema" :> S("http://json-schema.org/draft-07/schema#") @@ "default" :> Null
        @@ "title" :> S("T"),
     "enum" :> Arr(<<S("a"), Num("1"), Bool("false"), Null, Arr(<<Num("2")>>),
                     Obj("const" :> Num("3"))>>)
        @@ "additionalProperties" :> Bool("false")}

\* the property names of the model: the first MaxProps of these
PropName(i) == CASE i = 1 -> "a" [] i = 2 -> "pattern" [] i = 3 -> "format" [] OTHER -> "b"
PropKeys == {PropName(i) : i \in 1..MaxProps}

ChildPool ==
    {StringSchema,
     Obj("type" :> Arr(<<S("string"), S("null")>>)),
     Obj("type" :> S("null") @@ "description" :> S("d")),
     Obj("type" :> S("string") @@ "pattern" :> S("^x$") @@ "minimum" :> Num("2")),
     Obj("type" :> S("OBJECT")),
     Obj("pattern" :> S("^y$") @@ "format" :> S("date") @@ "description" :> Num("5"))}

PropertyMaps == UNION {[K -> ChildPool] : K \in SUBSET PropKeys}

RequiredParts ==
    {EmptyMap,
     "required" :> Arr(<<>>),
     "required" :> Arr(<<S("a")>>),
     "required" :> Arr(<<S("a"), S("pattern")>>),
     "required" :> Arr(<<S("pattern"), S("zz")>>),
     "required" :> Arr(<<S("a"), Num("3"), S("a")>>),
     "required" :> S("a")}

ObjectTypeParts ==
    {EmptyMap, "type" :> S("object"), "type" :> S("OBJECT"),
     "type" :> Arr(<<S("object"), S("null")>>)}

ParentParts == {EmptyMap, "pattern" :> S("^p$") @@ "description" :> S("parent")}

\* the branches of anyOf / oneOf
BranchPool ==
    {StringSchema,
     Obj("type" :> S("null")),
     Obj("type" :> S("OBJECT")),
     Obj("properties" :> Obj("a" :> StringSchema)),
     Obj("items" :> StringSchema),
     Obj("type" :> Arr(<<S("array"), S("null")>>)),
     Obj("type" :> S("null") @@ "properties" :> Obj("a" :> StringSchema)),
     S("x")}

\* the sequences of at most n members of P
RECURSIVE SeqsUpTo(_, _)
SeqsUpTo(P, n) ==
    IF n = 0 THEN {<<>>}
    ELSE SeqsUpTo(P, n - 1) \cup {Append(q, x) : q \in {r \in SeqsUpTo(P, n - 1) : Len(r) = n - 1},
                                                  x \in P}

AnyOfParts ==
    {EmptyMap, "anyOf" :> S("x")} \cup {"anyOf" :> Arr(q) : q \in SeqsUpTo(BranchPool, MaxBranches)}

OneOfParts ==
    {EmptyMap,
     "oneOf" :> Arr(<<Obj("type" :> S("INTEGER"))>>),
     "oneOf" :> Arr(<<Obj("type" :> S("null")), Obj("properties" :> Obj("a" :> StringSchema))>>)}

UnionTypeParts == {EmptyMap, "type" :> S("string"), "type" :> Arr(<<S("null")>>)}

UnionPropParts == {EmptyMap, "properties" :> Obj("a" :> StringSchema)}

\* the branches of allOf
AllOfPool ==
    {Obj("type" :> S("OBJECT") @@ "description" :> S("first")),
     Obj("properties" :> Obj("a" :> StringSchema) @@ "required" :> Arr(<<S("a")>>)),
     Obj("properties" :> Obj("a" :> Obj("type" :> Arr(<<S("integer"), S("null")>>))
                              @@ "b" :> StringSchema)
           @@ "required" :> Arr(<<S("b"), S("a")>>) @@ "description" :> S("second")),
     Obj("type" :> S("string") @@ "minLength" :> Num("1")
           @@ "allOf" :> Arr(<<Obj("type" :> S("number"))>>)),
     Obj("required" :> Arr(<<S("a"), S("b"), Num("7")>>) @@ "properties" :> S("x")),
     S("x")}

AllOfParts ==
    {"allOf" :> S("x")} \cup {"allOf" :> Arr(q) : q \in SeqsUpTo(AllOfPool, MaxBranches)}

\* what the node with the allOf has of its own
OwnParts ==
    {EmptyMap,
     "type" :> S("array"),
     "properties" :> Obj("a" :> Obj("type" :> S("boolean"))),
     "required" :> Arr(<<S("b")>>),
     "properties" :> Obj("a" :> Obj("type" :> S("null"))) @@ "required" :> Arr(<<S("a")>>),
     "properties" :> S("x") @@ "required" :> S("x"),
     "type" :> S("object") @@ "required" :> Arr(<<S("zz")>>),
     "description" :> S("own") @@ "properties" :> Obj("b" :> StringSchema)
        @@ "required" :> Arr(<<S("b"), S("a")>>)}

\* definition tables; the last two hold a reference cycle
Address ==
    Obj("type" :> S("object") @@ "properties" :> Obj("city" :> StringSchema)
          @@ "required" :> Arr(<<S("city"), S("zip")>>))
DefTables ==
    {"Address" :> Address,
     "A" :> Obj("$ref" :> S("#/$defs/B") @@ "description" :> S("from A"))
        @@ "B" :> Obj("type" :> S("STRING") @@ "minLength" :> Num("1")),
     "A" :> S("x"),
     "A" :> Obj("items" :> Obj("$ref" :> S("#/definitions/B")))
        @@ "B" :> Obj("type" :> Arr(<<S("string"), S("null")>>)),
     "A" :> Obj("$ref" :> S("#/$defs/A")),
     "A" :> Obj("properties" :> Obj("n" :> Obj("$ref" :> S("B"))))
        @@ "B" :> Obj("items" :> Obj("$ref" :> S("A")))}

\* where the root keeps its definitions
DefsParts ==
    {EmptyMap, "$defs" :> S("x"), "definitions" :> Obj(EmptyMap)}
    \cup {"$defs" :> Obj(t) : t \in DefTables}
    \cup {"definitions" :> Obj(t) : t \in DefTables}
    \cup {"$defs" :> Obj("A" :> Obj("type" :> S("number")) @@ "Address" :> Address)
            @@ "definitions" :> Obj(t) : t \in DefTables}

RefPaths == {"#/$defs/A", "#/$defs/Address", "B", "#/$defs/Missing"}

\* the part of the root that refers to a definition
RefBodies(r) ==
    LET ref == Obj("$ref" :> S(r))
    IN {"$ref" :> S(r),
        "$ref" :> S(r) @@ "type" :> S("array") @@ "required" :> Arr(<<S("city")>>),
        "properties" :> Obj("home" :> ref) @@ "required" :> Arr(<<S("home")>>),
        "items" :> ref @@ "type" :> S("array"),
        "anyOf" :> Arr(<<Obj("type" :> S("null")), ref>>),
        "prefixItems" :> Arr(<<Arr(<<ref>>)>>),
        "$ref" :> Num("5") @@ "items" :> Obj("$ref" :> Obj("type" :> S(r)))}

\* type names for a nullable type array
TypeNames == {"string", "integer", "number", "boolean", "array", "object", "STRING"}

\* roots that are not one schema object
OtherRoots ==
    {S("x"), Num("1"), Bool("true"), Null, Arr(<<>>),
     Arr(<<Obj("type" :> S("OBJECT")), S("x"), Arr(<<Obj("minLength" :> Num("1"))>>)>>),
     Arr(<<Obj("$defs" :> Obj("A" :> StringSchema) @@ "$ref" :> S("#/$defs/A"))>>),
     Obj(EmptyMap)}

\* nodes that are put below other nodes
Seeds ==
    {Obj("type" :> S("OBJECT")),
     Obj("type" :> Arr(<<S("string"), S("null")>>) @@ "minLength" :> Num("1")),
     Obj("type" :> S("null")),
     Obj("type" :> S("object") @@ "properties" :> Obj("pattern" :> Obj("pattern" :> S("^x$")))
           @@ "required" :> Arr(<<S("pattern"), S("zz")>>)),
     Obj("anyOf" :> Arr(<<Obj("type" :> S("null")), Obj("type" :> S("OBJECT"))>>)
           @@ "default" :> Null),
     Obj("allOf" :> Arr(<<Obj("required" :> Arr(<<S("a"), S("b")>>)
                            @@ "properties" :> Obj("a" :> StringSchema @@ "b" :> StringSchema))>>)),
     Obj("$ref" :> S("#/$defs/Missing") @@ "$defs" :> Obj(EmptyMap)),
     Obj("type" :> Num("5") @@ "format" :> Obj("type" :> S("STRING"))),
     S("STRING")}

\* a node below a root: as a property, as items, as an array element, as a
\* sibling of properties, as the branch of a union
Contexts(x) ==
    {Obj("type" :> S("object") @@ "properties" :> Obj("p" :> x) @@ "required" :> Arr(<<S("p")>>)),
     Obj("type" :> S("array") @@ "items" :> x),
     Arr(<<x>>),
     Obj("properties" :> Obj("a" :> StringSchema) @@ "items" :> x @@ "anyOf" :> Arr(<<x>>)),
     Obj("oneOf" :> Arr(<<x>>))}

RECURSIVE Wrapped(_)
Wrapped(n) ==
    IF n = 0 THEN Seeds
    ELSE Wrapped(n - 1) \cup UNION {Contexts(x) : x \in Wrapped(n - 1)}

\* HashSet iteration orders of the names that allOf branches require
HashOrders == {<<"a", "b">>, <<"b", "a">>}

DocChoice(d) ==
    \/ \E t \in DefsParts, r \in RefPaths : \E b \in RefBodies(r) : d = Obj(t @@ b)
    \/ \E t \in TypeParts, c \in ConstraintParts, e \in DescParts, h \in HardParts :
         d = Obj(t @@ c @@ e @@ h)
    \/ \E t \in ObjectTypeParts, m \in PropertyMaps, r \in RequiredParts, q \in ParentParts :
         d = Obj(t @@ ("properties" :> Obj(m)) @@ r @@ q)
    \/ \E t \in UnionTypeParts, a \in AnyOfParts, o \in OneOfParts, q \in UnionPropParts :
         d = Obj(t @@ a @@ o @@ q)
    \/ \E a \in AllOfParts, o \in OwnParts : d = Obj(a @@ o)
    \/ \E t \in TypeNames : d = Obj("type" :> Arr(<<S(t), S("null")>>))
    \/ d \in OtherRoots
    \/ d \in Wrapped(MaxWrap)

(***************************************************************************)
(* The state machine: one call of clean_json_schema on doc, then a second  *)
(* call on its result.                                                     *)
(***************************************************************************)
Init ==
    /\ DocChoice(doc)
    /\ ord = <<>>
    /\ out = Null
    /\ out2 = Null
    /\ pc = "ready"

\* clean_json_schema(&mut doc) returns; ord is the order its HashSets iterate in
Clean ==
    /\ pc = "ready"
    /\ clean_json_schema(doc, <<>>).ok
    /\ \E o \in HashOrders :
         /\ ord' = o
         /\ out' = clean_json_schema(doc, o).value
    /\ pc' = "cleaned"
    /\ UNCHANGED <<doc, out2>>

\* flatten_refs recursed until the stack overflowed: the process aborts
Overflow ==
    /\ pc = "ready"
    /\ ~clean_json_schema(doc, <<>>).ok
    /\ pc' = "overflow"
    /\ UNCHANGED <<doc, ord, out, out2>>

\* clean_json_schema(&mut out) on the result of the first call
CleanAgain ==
    /\ pc = "cleaned"
    /\ clean_json_schema(out, <<>>).ok
    /\ \E o \in HashOrders : out2' = clean_json_schema(out, o).value
    /\ pc' = "recleaned"
    /\ UNCHANGED <<doc, ord, out>>

Next == Clean \/ Overflow \/ CleanAgain

Spec == Init /\ [][Next]_vars

\* the return of the first call: with its result, or by the abort
Return == pc = "ready" /\ pc' \in {"cleaned", "overflow"}

\* the call is synchronous: a call that was made returns or aborts
FairSpec == Spec /\ WF_pc(Return)

(***************************************************************************)
(* Vocabulary of the properties.                                           *)
(***************************************************************************)
\* every object node of a value, at any depth, through any key or element
RECURSIVE object_nodes(_)
object_nodes(value) ==
    IF is_object(value)
    THEN {value} \cup UNION {object_nodes(value.obj[x]) : x \in DOMAIN value.obj}
    ELSE IF is_array(value)
    THEN UNION {object_nodes(value.arr[i]) : i \in 1..Len(value.arr)}
    ELSE {}

\* the object nodes clean_json_schema_recursive is called on, as it receives
\* them: the node, then its properties if it has a properties object after
\* merge_all_of, else all its values; the elements of an array
RECURSIVE visited(_, _)
visited(value, hash_order) ==
    IF is_object(value)
    THEN LET map == merge_all_of(value.obj, hash_order)
             below == IF contains_key(map, "properties") /\ is_object(map["properties"])
                      THEN map["properties"].obj ELSE map
         IN {value} \cup UNION {visited(below[x], hash_order) : x \in DOMAIN below}
    ELSE IF is_array(value)
    THEN UNION {visited(value.arr[i], hash_order) : i \in 1..Len(value.arr)}
    ELSE {}

\* the nodes the call on doc visited
visited_nodes == visited(flatten_root(doc).value, ord)

\* the result of the rewrite pass on a node
rewritten(node) == clean_json_schema_recursive(node, ord).value

validation_keywords == {validation_fields[j][1] : j \in 1..Len(validation_fields)}

label_of(field) ==
    validation_fields[CHOOSE j \in 1..Len(validation_fields) : validation_fields[j][1] = field][2]

has_nonempty_properties(map) ==
    /\ contains_key(map, "properties")
    /\ is_object(map["properties"])
    /\ DOMAIN map["properties"].obj # {}

(***************************************************************************)
(* C1.  After clean_json_schema returns, no object node reachable from the *)
(* root has a key named $ref, $defs or definitions, a key of the           *)
(* hard-remove list, or a validation keyword.                              *)
(***************************************************************************)
C1_ForbiddenKeys ==
    {"$ref", "$defs", "definitions",
     "$schema", "$id", "additionalProperties", "uniqueItems", "default", "const",
     "examples", "propertyNames", "anyOf", "oneOf", "allOf", "not", "if", "then", "else",
     "dependencies", "dependentSchemas", "dependentRequired", "cache_control",
     "contentEncoding", "contentMediaType", "deprecated", "readOnly", "writeOnly",
     "pattern", "minLength", "maxLength", "minimum", "maximum", "minItems", "maxItems",
     "exclusiveMinimum", "exclusiveMaximum", "multipleOf", "format"}

\* C1: after the call no object node of the output has a forbidden key
C1_NoForbiddenKeys ==
    pc = "cleaned" => \A node \in object_nodes(out) : DOMAIN node.obj \cap C1_ForbiddenKeys = {}

(***************************************************************************)
(* C2.  clean_json_schema is idempotent: a second call on the result of    *)
(* the first leaves it unchanged.                                          *)
(***************************************************************************)
C2_Idempotent == pc = "recleaned" => out2 = out

(***************************************************************************)
(* C3.  In the output every object node whose type is "object" has a       *)
(* properties key whose value is a non-empty object.                       *)
(***************************************************************************)
C3_ObjectHasProperties ==
    pc = "cleaned" =>
      \A node \in object_nodes(out) :
        get_str_is(node.obj, "type", "object") => has_nonempty_properties(node.obj)

(***************************************************************************)
(* C4.  For the root and every object node the rewrite pass processes, if  *)
(* the output node has a required array then (1) every element of it is a  *)
(* string that is a key of the node's properties object, and it is empty   *)
(* when the node has no properties object, and (2) no element names a      *)
(* property whose schema the pass reported nullable.                       *)
(***************************************************************************)
\* the node after merge_all_of: what the descent into the children sees
merged_node(node) == merge_all_of(node.obj, ord)

has_properties_object(map) == contains_key(map, "properties") /\ is_object(map["properties"])

has_required_array(map) == contains_key(map, "required") /\ is_array(map["required"])

\* the properties of a node for which the recursive call returned true
reported_nullable(node) ==
    IF has_properties_object(merged_node(node))
    THEN {x \in DOMAIN merged_node(node)["properties"].obj :
            clean_json_schema_recursive(merged_node(node)["properties"].obj[x], ord).nullable}
    ELSE {}

C4_required_ok(node) ==
    LET o == rewritten(node).obj
        req == o["required"].arr
    IN has_required_array(o) =>
         /\ \A i \in 1..Len(req) :
              /\ is_string(req[i])
              /\ has_properties_object(o)
              /\ req[i].str \in DOMAIN o["properties"].obj
              /\ req[i].str \notin reported_nullable(node)
         /\ (~has_properties_object(o) => req = <<>>)

\* C4: on every processed node, required names only properties, none of them
\* reported nullable
C4_RequiredReconciled ==
    pc = "cleaned" =>
      /\ is_object(out) => out = rewritten(flatten_root(doc).value)
      /\ \A node \in visited_nodes : C4_required_ok(node)

\* a processed node whose required array named a nullable property, taken from
\* an allOf branch, and which keeps a required array with another name
C4_Witness ==
    /\ pc = "cleaned"
    /\ \E node \in visited_nodes :
         /\ contains_key(node.obj, "allOf")
         /\ has_required_array(merged_node(node))
         /\ required_strings(merged_node(node)["required"].arr) \cap reported_nullable(node) # {}
         /\ has_required_array(rewritten(node).obj)
         /\ rewritten(node).obj["required"].arr # <<>>

(***************************************************************************)
(* C5.  In the output, for every object node that has a type key, the      *)
(* value of type is a single lowercase string: never an array, never a     *)
(* string with an uppercase letter, never a value of another JSON kind.    *)
(***************************************************************************)
is_lowercase_string(val) == is_string(val) /\ to_lowercase(val.str) = val.str

\* C5: every type in the output is a single lowercase string
C5_TypeShape ==
    pc = "cleaned" =>
      \A node \in object_nodes(out) :
        contains_key(node.obj, "type") => is_lowercase_string(node.obj["type"])

(***************************************************************************)
(* C6.  Property-name collision safety: a property whose name is a         *)
(* validation keyword and whose value is an object schema is still in the  *)
(* properties object after the pass, with its normalized schema; no hint   *)
(* for it is added to the parent's description; a scalar validation        *)
(* keyword of the same name inside the property's schema is migrated into  *)
(* that schema's description.                                              *)
(***************************************************************************)
description_of(map) == IF contains_key(map, "description") THEN map["description"] ELSE Null

\* the migration of field into the description of the rewritten schema
C6_migrated_inside(schema, field, out_schema) ==
    /\ ~contains_key(out_schema.obj, field)
    /\ is_string(description_of(out_schema.obj))
    /\ contains(description_of(out_schema.obj).str,
                label_of(field) \o ": " \o scalar_text(schema.obj[field]))

\* the property k of a processed node is kept, normalized, and the parent's
\* description is what it is without that property
C6_property_kept(node, k) ==
    LET m == merged_node(node)
        props == m["properties"].obj
        o == rewritten(node).obj
        without == Obj(insert(m, "properties", Obj(remove(props, k))))
    IN /\ has_properties_object(o)
       /\ contains_key(o["properties"].obj, k)
       /\ o["properties"].obj[k] = clean_json_schema_recursive(props[k], ord).value
       /\ description_of(o) = description_of(rewritten(without).obj)

\* the properties of a node that collide with a validation keyword
C6_colliding(node) ==
    IF has_properties_object(merged_node(node))
    THEN {k \in DOMAIN merged_node(node)["properties"].obj \cap validation_keywords :
            is_object(merged_node(node)["properties"].obj[k])}
    ELSE {}

C6_carries_scalar(schema, field) ==
    contains_key(schema.obj, field) /\ is_scalar_constraint(schema.obj[field])

\* C6: a property named like a validation keyword is kept, gives the parent no
\* hint, and its own scalar keyword of that name is migrated inside it
C6_CollisionSafety ==
    pc = "cleaned" =>
      \A node \in visited_nodes : \A k \in C6_colliding(node) :
        LET schema == merged_node(node)["properties"].obj[k]
        IN /\ C6_property_kept(node, k)
           /\ C6_carries_scalar(schema, k) =>
                C6_migrated_inside(schema, k, rewritten(node).obj["properties"].obj[k])

(***************************************************************************)
(* C7.  Constraint migration loses no information: for every object node   *)
(* the rewrite pass processes and each validation keyword the node carries *)
(* with a scalar value v, the output node no longer has that key and its   *)
(* description is a string that contains the hint "label: v" inside the    *)
(* suffix " [Constraint: h1, h2, ...]", the hints in the order of the      *)
(* keyword list; a keyword with a non-scalar value is left in place and    *)
(* yields no hint.                                                         *)
(***************************************************************************)
\* the hints the claim expects of the keywords from the j-th on
RECURSIVE C7_hints(_, _)
C7_hints(map, j) ==
    IF j > Len(validation_fields) THEN <<>>
    ELSE LET field == validation_fields[j][1]
             rest == C7_hints(map, j + 1)
         IN IF contains_key(map, field) /\ is_scalar_constraint(map[field])
            THEN <<validation_fields[j][2] \o ": " \o scalar_text(map[field])>> \o rest
            ELSE rest

C7_migrated(node) ==
    LET m == merged_node(node)
        o == rewritten(node).obj
        hints == C7_hints(m, 1)
        suffix == " [Constraint: " \o join(hints, ", ") \o "]"
    IN \A field \in validation_keywords \cap DOMAIN m :
         IF is_scalar_constraint(m[field])
         THEN /\ ~contains_key(o, field)
              /\ is_string(description_of(o))
              /\ contains(description_of(o).str, suffix)
              /\ contains(suffix, label_of(field) \o ": " \o scalar_text(m[field]))
         ELSE /\ contains_key(o, field)
              /\ (hints = <<>> /\ is_string(description_of(o)))
                   => ~contains(description_of(o).str, "[Constraint: ")

\* C7: every scalar validation keyword of a processed node is removed and
\* recorded in the description; a non-scalar one stays and gives no hint
C7_MigrationLosesNothing ==
    pc = "cleaned" => \A node \in visited_nodes : C7_migrated(node)

(***************************************************************************)
(* C8.  Union resolution: a processed node with an explicit type keeps it; *)
(* a node without type takes the type of the first highest-scoring branch  *)
(* of anyOf (3: properties or type "object"; 2: items or type "array"; 1:  *)
(* another non-"null" type; 0 otherwise): that branch's type in lowercase  *)
(* if it is not "null", "object" if the branch has no type but has         *)
(* properties; oneOf is consulted only when anyOf is absent or yielded no  *)
(* type; if nothing yields a type, type stays absent.  anyOf and oneOf are *)
(* absent from the output node in every case.                              *)
(***************************************************************************)
C8_score(branch) ==
    IF ~is_object(branch) THEN 0
    ELSE IF contains_key(branch.obj, "properties") \/ get_str_is(branch.obj, "type", "object")
    THEN 3
    ELSE IF contains_key(branch.obj, "items") \/ get_str_is(branch.obj, "type", "array")
    THEN 2
    ELSE IF /\ contains_key(branch.obj, "type")
            /\ is_string(branch.obj["type"])
            /\ branch.obj["type"].str # "null"
    THEN 1
    ELSE 0

\* the type the claim takes from a union: of the first branch with the
\* highest score
C8_union_type(map, key) ==
    IF ~(contains_key(map, key) /\ is_array(map[key])) \/ map[key].arr = <<>> THEN None
    ELSE LET arr == map[key].arr
             best == CHOOSE i \in 1..Len(arr) :
                       /\ \A j \in 1..Len(arr) : C8_score(arr[j]) <= C8_score(arr[i])
                       /\ \A j \in 1..(i - 1) : C8_score(arr[j]) < C8_score(arr[i])
             branch == arr[best]
         IN IF ~is_object(branch) THEN None
            ELSE IF contains_key(branch.obj, "type")
            THEN IF is_string(branch.obj["type"]) /\ branch.obj["type"].str # "null"
                 THEN Some(to_lowercase(branch.obj["type"].str))
                 ELSE None
            ELSE IF contains_key(branch.obj, "properties") THEN Some("object")
            ELSE None

C8_resolved(node) ==
    LET pre == clean_children(merged_node(node), ord)
        o == rewritten(node).obj
        any == C8_union_type(pre, "anyOf")
        one == C8_union_type(pre, "oneOf")
    IN /\ ~contains_key(o, "anyOf")
       /\ ~contains_key(o, "oneOf")
       /\ IF contains_key(pre, "type")
          THEN /\ contains_key(o, "type")
               /\ is_string(pre["type"]) => o["type"] = Str(to_lowercase(pre["type"].str))
          ELSE IF any.some THEN contains_key(o, "type") /\ o["type"] = Str(any.val)
          ELSE IF one.some THEN contains_key(o, "type") /\ o["type"] = Str(one.val)
          ELSE ~contains_key(o, "type")

\* C8: on every processed node the type is the explicit one, else the one the
\* first highest-scoring branch yields; anyOf and oneOf are gone
C8_UnionResolution ==
    pc = "cleaned" => \A node \in visited_nodes : C8_resolved(node)

(***************************************************************************)
(* C9.  A document whose only key is type, with the array value            *)
(* [T, "null"] for a non-null type name T, is normalized to exactly the    *)
(* document {"type": T}: type is the single string T and the output has no *)
(* other key.                                                              *)
(***************************************************************************)
\* the document {"type": [T, "null"]}
C9_nullable_doc(T) == Obj("type" :> Arr(<<Str(T), Str("null")>>))

\* C9: {"type": [T, "null"]} is normalized to exactly {"type": T}
C9_NullableTypeArray ==
    pc = "cleaned" =>
      \A T \in TypeNames : doc = C9_nullable_doc(T) => out = Obj("type" :> Str(T))

\* C9 as amended: for a type name T other than "object", the output has type
\* T in lowercase and one more key, the description "(nullable)"
C9_NullableTypeArrayMarked ==
    pc = "cleaned" =>
      \A T \in TypeNames :
        (doc = C9_nullable_doc(T) /\ to_lowercase(T) # "object") =>
          out = Obj("type" :> Str(to_lowercase(T)) @@ "description" :> Str("(nullable)"))

C9_Witness ==
    /\ pc = "cleaned"
    /\ doc = C9_nullable_doc("integer")
    /\ contains_key(out.obj, "type")

(***************************************************************************)
(* C10.  Totality: for every JSON value in which the $ref references       *)
(* through the root's $defs / definitions form no cycle, clean_json_schema *)
(* eventually returns and never overflows the stack; a scalar root is      *)
(* returned unchanged.                                                     *)
(***************************************************************************)
\* the definitions the root carries
C10_defs ==
    IF is_object(doc)
    THEN extend(IF contains_key(doc.obj, "$defs") /\ is_object(doc.obj["$defs"])
                THEN doc.obj["$defs"].obj ELSE EmptyMap,
                IF contains_key(doc.obj, "definitions") /\ is_object(doc.obj["definitions"])
                THEN doc.obj["definitions"].obj ELSE EmptyMap)
    ELSE EmptyMap

\* the definitions that value refers to and that can be substituted
C10_refs(value) ==
    {split_last(node.obj["$ref"].str) :
       node \in {n \in object_nodes(value) :
                   contains_key(n.obj, "$ref") /\ is_string(n.obj["$ref"])}}
    \cap {name \in DOMAIN C10_defs : is_object(C10_defs[name])}

\* the definitions reached from those of names in at most k references
RECURSIVE C10_reached(_, _)
C10_reached(names, k) ==
    IF k = 0 THEN names
    ELSE C10_reached(names \cup UNION {C10_refs(C10_defs[name]) : name \in names}, k - 1)

C10_acyclic ==
    \A name \in DOMAIN C10_defs :
      name \notin C10_reached(C10_refs(C10_defs[name]), Cardinality(DOMAIN C10_defs))

\* C10: a call on a document without a reference cycle returns, and a scalar
\* root is returned unchanged
C10_Totality ==
    (pc = "ready" /\ C10_acyclic)
      ~> (pc = "cleaned" /\ ((~is_object(doc) /\ ~is_array(doc)) => out = doc))

\* a call returned on a root whose $ref led through a chain of definitions
C10_Witness ==
    /\ pc = "cleaned"
    /\ C10_acyclic
    /\ is_object(doc)
    /\ \E name \in C10_refs(Obj(remove(remove(doc.obj, "$defs"), "definitions"))) :
         C10_refs(C10_defs[name]) # {}

(***************************************************************************)
(* C11.  allOf merge precedence: after merge_all_of on a node with an      *)
(* allOf array, (a) each property is the node's own definition if it had   *)
(* one, else that of the last branch declaring the name; (b) each other    *)
(* field is the node's own value if it had one, else that of the first     *)
(* branch declaring it; (c) required is the node's own entries in their    *)
(* order followed by every string a branch requires that was not present,  *)
(* each exactly once; (d) allOf is removed and the merged properties are   *)
(* normalized like the node's own.                                         *)
(***************************************************************************)
\* the branches of all_of that declare a property name / another field
C11_declares_property(all_of, name) ==
    {i \in 1..Len(all_of) : /\ is_object(all_of[i])
                            /\ has_properties_object(all_of[i].obj)
                            /\ contains_key(all_of[i].obj["properties"].obj, name)}

C11_declares_field(all_of, field) ==
    {i \in 1..Len(all_of) : is_object(all_of[i]) /\ contains_key(all_of[i].obj, field)}

C11_max(idx) == CHOOSE i \in idx : \A j \in idx : j <= i
C11_min(idx) == CHOOSE i \in idx : \A j \in idx : i <= j

C11_own_properties(map) ==
    IF has_properties_object(map) THEN map["properties"].obj ELSE EmptyMap

C11_own_required(map) ==
    IF has_required_array(map) THEN map["required"].arr ELSE <<>>

\* the names the branches declare, the strings they require
C11_branch_names(all_of) ==
    {name \in UNION {DOMAIN C11_own_properties(all_of[i].obj) :
                       i \in {j \in 1..Len(all_of) : is_object(all_of[j])}} : TRUE}

C11_branch_required(all_of) ==
    UNION {required_strings(C11_own_required(all_of[i].obj)) :
             i \in {j \in 1..Len(all_of) : is_object(all_of[j])}}

\* (a)
C11_properties_ok(map, merged) ==
    LET all_of == map["allOf"].arr
        own == C11_own_properties(map)
        names == DOMAIN own \cup C11_branch_names(all_of)
    IN IF C11_branch_names(all_of) = {}
       THEN contains_key(merged, "properties") = contains_key(map, "properties")
            /\ (contains_key(map, "properties") => merged["properties"] = map["properties"])
       ELSE /\ has_properties_object(merged)
            /\ DOMAIN merged["properties"].obj = names
            /\ \A name \in names :
                 merged["properties"].obj[name] =
                   IF name \in DOMAIN own THEN own[name]
                   ELSE all_of[C11_max(C11_declares_property(all_of, name))]
                          .obj["properties"].obj[name]

\* (b)
C11_fields_ok(map, merged) ==
    LET all_of == map["allOf"].arr
        special == {"properties", "required", "allOf"}
        fields == (DOMAIN map \cup UNION {DOMAIN all_of[i].obj :
                      i \in {j \in 1..Len(all_of) : is_object(all_of[j])}}) \ special
    IN /\ DOMAIN merged \ special = fields
       /\ \A field \in fields :
            merged[field] = IF contains_key(map, field) THEN map[field]
                            ELSE all_of[C11_min(C11_declares_field(all_of, field))].obj[field]

\* (c)
C11_required_ok(map, merged) ==
    LET all_of == map["allOf"].arr
        own == C11_own_required(map)
        added == C11_branch_required(all_of) \ required_strings(own)
    IN IF C11_branch_required(all_of) = {}
       THEN contains_key(merged, "required") = contains_key(map, "required")
            /\ (contains_key(map, "required") => merged["required"] = map["required"])
       ELSE /\ has_required_array(merged)
            /\ LET arr == merged["required"].arr
                   tail == SubSeq(arr, Len(own) + 1, Len(arr))
               IN /\ Len(arr) = Len(own) + Cardinality(added)
                  /\ SubSeq(arr, 1, Len(own)) = own
                  /\ {tail[i] : i \in 1..Len(tail)} = {Str(s) : s \in added}

\* (d)
C11_normalized_ok(node, merged) ==
    /\ ~contains_key(merged, "allOf")
    /\ has_properties_object(merged) =>
         /\ has_properties_object(rewritten(node).obj)
         /\ DOMAIN merged["properties"].obj # {} =>
              rewritten(node).obj["properties"] =
                Obj([name \in DOMAIN merged["properties"].obj |->
                       clean_json_schema_recursive(merged["properties"].obj[name], ord).value])

C11_has_all_of(node) == contains_key(node.obj, "allOf") /\ is_array(node.obj["allOf"])

\* C11: the four parts hold of every processed node that has an allOf array
C11_MergePrecedence ==
    pc = "cleaned" =>
      \A node \in {n \in visited_nodes : C11_has_all_of(n)} :
        /\ C11_properties_ok(node.obj, merged_node(node))
        /\ C11_fields_ok(node.obj, merged_node(node))
        /\ C11_required_ok(node.obj, merged_node(node))
        /\ C11_normalized_ok(node, merged_node(node))

\* C11 as amended: (a) applies when the node's own properties is absent or an
\* object, (c) when its own required is absent or an array; a properties
\* that is not an object, a required that is not an array, is left as it is
C11_MergePrecedenceWellFormed ==
    pc = "cleaned" =>
      \A node \in {n \in visited_nodes : C11_has_all_of(n)} :
        LET map == node.obj
            merged == merged_node(node)
        IN /\ IF contains_key(map, "properties") /\ ~is_object(map["properties"])
              THEN contains_key(merged, "properties") /\ merged["properties"] = map["properties"]
              ELSE C11_properties_ok(map, merged)
           /\ C11_fields_ok(map, merged)
           /\ IF contains_key(map, "required") /\ ~is_array(map["required"])
              THEN contains_key(merged, "required") /\ merged["required"] = map["required"]
              ELSE C11_required_ok(map, merged)
           /\ C11_normalized_ok(node, merged)

\* a processed node took a property that two branches declare differently
\* from the last of them, and strings that the branches require
C11_Witness ==
    /\ pc = "cleaned"
    /\ \E node \in {n \in visited_nodes : C11_has_all_of(n)} :
         LET all_of == node.obj["allOf"].arr
             merged == merged_node(node)
         IN /\ has_properties_object(merged)
            /\ has_required_array(merged)
            /\ \E name \in C11_branch_names(all_of) \ DOMAIN C11_own_properties(node.obj) :
                 LET idx == C11_declares_property(all_of, name)
                 IN /\ Cardinality(idx) > 1
                    /\ all_of[C11_min(idx)].obj["properties"].obj[name]
                         # all_of[C11_max(idx)].obj["properties"].obj[name]
                    /\ merged["properties"].obj[name]
                         = all_of[C11_max(idx)].obj["properties"].obj[name]
            /\ C11_branch_required(all_of) \ required_strings(C11_own_required(node.obj)) # {}
            /\ Len(merged["required"].arr) > Len(C11_own_required(node.obj))

(***************************************************************************)
(* C12.  Unresolvable reference fallback: for every object node carrying a *)
(* $ref whose definition name is not in the table of definitions taken     *)
(* from the root, the table being empty when the root has none,            *)
(* clean_json_schema removes the $ref key, substitutes nothing and leaves  *)
(* the node with exactly its other keys, normalized as usual.              *)
(***************************************************************************)
\* a $ref of map that names no definition of the table
C12_unresolvable(map) ==
    /\ contains_key(map, "$ref")
    /\ is_string(map["$ref"])
    /\ ~contains_key(C10_defs, split_last(map["$ref"].str))

\* value without the unresolvable $ref keys of its object nodes
RECURSIVE C12_dropped(_)
C12_dropped(value) ==
    IF is_object(value)
    THEN LET map == IF C12_unresolvable(value.obj) THEN remove(value.obj, "$ref")
                    ELSE value.obj
         IN Obj([x \in DOMAIN map |-> C12_dropped(map[x])])
    ELSE IF is_array(value)
    THEN Arr([i \in 1..Len(value.arr) |-> C12_dropped(value.arr[i])])
    ELSE value

C12_carries_unresolvable ==
    \E node \in object_nodes(doc) : C12_unresolvable(node.obj)

\* C12: the result is that of the document without its unresolvable $ref keys
C12_UnresolvableDropped ==
    (pc = "cleaned" /\ C12_carries_unresolvable) =>
       out = clean_json_schema(C12_dropped(doc), ord).value

(***************************************************************************)
(* C13.  Determinism: two runs of clean_json_schema on equal documents     *)
(* give equal results, the order of the elements of every required array   *)
(* included; the order in which the names required by allOf branches are   *)
(* appended does not depend on the iteration order of the set that         *)
(* collects them.                                                          *)
(***************************************************************************)
\* C13: the result of this run is the result of a run under any iteration order
C13_Deterministic ==
    pc = "cleaned" => \A o \in HashOrders : clean_json_schema(doc, o).value = out

====
